---- MODULE Spec2Model ----
(***************************************************************************)
(* The persistent response cache of local-llm/ollama_llm_run.py: the       *)
(* process-wide mapping response_cache, the backing file CACHE_FILE, and   *)
(* the operations load_cache, save_cache, get_cache_key, clear_cache and   *)
(* get_response, with process exits and crashes between and inside them.   *)
(* Beside it the prompt registry of the prompt versioning app:             *)
(* ensure_prompt_registered of utils/mlflow_utils.py and the form of       *)
(* app.py that calls it.                                                   *)
(***************************************************************************)
EXTENDS Integers, Sequences, FiniteSets, TLC

(***************************************************************************)
(* Bounds of the model.                                                    *)
(***************************************************************************)
\* stores after which no further caching call is started (ticks of time.time())
MaxClock == 2
\* process runs on the same backing file
MaxRuns == 2
\* versions of the prompt the registry takes
MaxVersions == 3

(***************************************************************************)
(* Inputs.  The prompts and model names are chosen so that the separator   *)
(* character of get_cache_key occurs in them, as it does in the model name *)
(* "llama3.2:3b" of demo_caching.                                          *)
(***************************************************************************)
Threads == {1, 2}
\* the (prompt, model) pairs get_response is called with
Pairs == {<<"b", "a">>, <<"b", "a:">>, <<":b", "a">>}
\* texts the remote model may answer with
Texts == {"Delhi"}
\* data.get("response", "No response")
NoResponse == "No response"
\* f"Error: {e}"
ErrorText == "Error: request failed"
\* measured durations of a remote call, and of a cache retrieval
Latencies == {2, 3}
RetrievalTimes == {1}

None == "<none>"

(***************************************************************************)
(* get_cache_key: the digest of f"{model}:{prompt}".  md5 is the hexdigest *)
(* of hashlib.md5 on the strings the inputs above can build.               *)
(***************************************************************************)
md5(s) ==
    CASE s = "a:b"   -> "d8160c9b3dc20d4e931aeb4f45262155"
      [] s = "a::b"  -> "bb0bcf9744a9101d171d607fdcc05134"
      [] s = "a:::b" -> "bf10dd54d4722766d1080efa879ee8fb"
      [] s = "a:c"   -> "bcd423fe646039c675cf7361328ffea2"
      [] s = "a:d"   -> "5191e5acc16dec8ba06bff6613d27285"

combined(prompt, model) == model \o ":" \o prompt

get_cache_key(prompt, model) == md5(combined(prompt, model))

KeyOf(q) == get_cache_key(q[1], q[2])

(***************************************************************************)
(* Values.                                                                 *)
(***************************************************************************)
\* the empty dict
EmptyCache == [k \in {} |-> None]

\* len(response_cache)
Size(d) == Cardinality(DOMAIN d)

\* a lookup that never finds anything
CacheHit_never(d, k) == FALSE

\* cache_key in response_cache
CacheHit(d, k) == k \in DOMAIN d

\* an assignment of a new dict that holds the entry only
DictSet_fresh(d, k, v) == [x \in {k} |-> v]

\* an assignment to a copy of the dict: the entry is lost
DictSet_lost(d, k, v) == d

\* response_cache.setdefault(cache_key, cache_entry): an entry already
\* there is kept
DictSet_setdefault(d, k, v) ==
    [x \in DOMAIN d \cup {k} |-> IF x \in DOMAIN d THEN d[x] ELSE v]

\* the dict assignment response_cache[cache_key] = cache_entry
DictSet(d, k, v) == [x \in DOMAIN d \cup {k} |-> IF x = k THEN v ELSE d[x]]

\* the backing file: absent, or present with content that pickle.load turns
\* into the dict that was dumped (readable) or raises on (the empty file that
\* open(.., 'wb') leaves, a dump cut short)
NoFile == [exists |-> FALSE, readable |-> FALSE, data |-> EmptyCache]
Unreadable == [exists |-> TRUE, readable |-> FALSE, data |-> EmptyCache]
\* a dump that writes the durations as whole seconds
Pickled_rounded(d) ==
    [exists |-> TRUE, readable |-> TRUE,
     data |-> [k \in DOMAIN d |-> [d[k] EXCEPT !.original_time = 0]]]

\* a dump of the entry stored last only
Pickled_newest(d) ==
    [exists |-> TRUE, readable |-> TRUE,
     data |-> [k \in {x \in DOMAIN d :
                         \A y \in DOMAIN d :
                             d[y].timestamp <= d[x].timestamp} |-> d[k]]]

Pickled(d) == [exists |-> TRUE, readable |-> TRUE, data |-> d]

\* what the backing file holds: nothing when it is absent or does not
\* unpickle
FileContent(f) == IF f.exists /\ f.readable THEN f.data ELSE EmptyCache

\* the pairs whose entries earlier runs may have left in the backing file,
\* in the order they were stored
SeedPairs == <<<<"b", "a">>, <<"b", "a:">>, <<"c", "a">>, <<"d", "a">>>>

\* the dict after the first n of them were stored, at times before time 0
SeededCache(n) ==
    LET at(k) == CHOOSE i \in 1..n : KeyOf(SeedPairs[i]) = k
    IN [k \in {KeyOf(SeedPairs[i]) : i \in 1..n} |->
           [response |-> CHOOSE x \in Texts : TRUE,
            original_time |-> CHOOSE x \in Latencies : TRUE,
            timestamp |-> at(k) - Len(SeedPairs) - 1,
            model |-> SeedPairs[at(k)][2]]]

\* os.path.getsize, in a unit the model leaves open: nothing for an empty
\* file, more for a file with content
getsize(f) ==
    IF f.readable THEN {2 + Size(f.data)} ELSE {0, 1}

\* list(response_cache.keys()): the keys in the order of their insertion,
\* which for stores that follow one another is the order of their timestamps
RECURSIVE KeyList(_)
KeyList(d) ==
    IF DOMAIN d = {}
    THEN <<>>
    ELSE LET k == CHOOSE x \in DOMAIN d :
                      \A y \in DOMAIN d : d[x].timestamp <= d[y].timestamp
         IN <<k>> \o KeyList([x \in DOMAIN d \ {k} |-> d[x]])

\* the slice s[:n]
Slice(s, n) == SubSeq(s, 1, IF Len(s) < n THEN Len(s) ELSE n)

\* "cached_keys": list(response_cache.keys())[:3]
SampleKeys == 3

\* get_cache_stats without the slice
GetStats_allkeys(d, f, size) ==
    [cache_size |-> Size(d), cache_file_exists |-> f.exists,
     cache_file_size_bytes |-> IF f.exists THEN size ELSE 0,
     cached_keys |-> KeyList(d)]

\* get_cache_stats; size: what os.path.getsize returns
GetStats(d, f, size) ==
    [cache_size |-> Size(d), cache_file_exists |-> f.exists,
     cache_file_size_bytes |-> IF f.exists THEN size ELSE 0,
     cached_keys |-> Slice(KeyList(d), SampleKeys)]

\* the locals of a get_response call, and with them (history) the keys
\* the backing file held when the call assigned its entry
NoFrame == [prompt |-> "", model |-> "", use_cache |-> FALSE, cache_key |-> "",
            response_text |-> "", response_time |-> 0, file_keys |-> {}]

\* what the last call of a thread handed back: the operation, how it ended,
\* the text and time of a get_response result, and for load_cache and
\* clear_cache the number of entries the dict held when they were called
Ret(op, kind, text, time, had) ==
    [op |-> op, kind |-> kind, text |-> text, time |-> time, had |-> had]
NoRet == Ret("", "none", "", 0, 0)
\* the result of get_cache_stats
StatsRet(st) ==
    [op |-> "get_cache_stats", kind |-> "returned", text |-> "", time |-> 0,
     had |-> 0, stats |-> st]

\* the last store or clear that returned: for a store the pair, the response
\* and whether the file was written; for a clear the number of entries the
\* dict held and whether the file is gone.  op is "put", "clear", or
\* "put, load" when load_cache was the next call after the store.  Also the
\* last caching get_response call that returned otherwise: op is "hit" (had
\* is 1 when the call before it was a store or a hit of the same pair) or
\* "error", or "uncached" for a call with use_cache false (had is 1 when the
\* dict held the key of its pair, ok tells whether the request was
\* answered).  For a store, had is 1 when the store that returned before it,
\* with no call begun since, was of the same pair, and also holds the pairs
\* stored before it by the same process, with no clear or load between,
\* whose own save_cache failed, each with its response
Done(op, q, response, had, ok) ==
    [op |-> op, prompt |-> q[1], model |-> q[2], response |-> response,
     had |-> had, ok |-> ok, also |-> {}]
NoDone == Done("", <<"", "">>, "", 0, FALSE)

(***************************************************************************)
(* Prompt templates.  A string is the sequence of its characters, so that  *)
(* str.strip can be computed.                                              *)
(***************************************************************************)
Whitespace == {" ", "\n"}

RECURSIVE lstrip(_)
lstrip(s) ==
    IF s # <<>> /\ Head(s) \in Whitespace THEN lstrip(Tail(s)) ELSE s

RECURSIVE rstrip(_)
rstrip(s) ==
    IF s # <<>> /\ s[Len(s)] \in Whitespace
    THEN rstrip(SubSeq(s, 1, Len(s) - 1))
    ELSE s

\* str.strip()
strip(s) == rstrip(lstrip(s))

\* what the two text areas of the form may hold
SystemPrompts == {<<"h">>, <<"h", "\n">>}
UserPrompts == {<<"q">>, <<" ", "q">>, <<"r">>}

\* app.py lines 130-133: the chat template built from the form
Template(system_prompt, user_prompt) ==
    <<[role |-> <<"s">>, content |-> system_prompt],
      [role |-> <<"u">>, content |-> user_prompt]>>

\* normalize_template, for the chat templates (lists) the form registers
normalize_template(tmpl) ==
    [i \in 1..Len(tmpl) |->
        [role |-> strip(tmpl[i].role), content |-> strip(tmpl[i].content)]]

\* ensure_prompt_registered on the registry vs, the versions of prompt_name
\* with the latest last.  loads: load_prompt returns (it raises when there
\* is no version, and whenever the registry cannot be read); registers:
\* register_prompt returns.  The result: the registry, and what the caller
\* gets: "True", "False" or "raised".
ensure_prompt_registered(vs, template, loads, registers) ==
    IF /\ loads
       /\ vs # <<>>
       /\ normalize_template(vs[Len(vs)]) = normalize_template(template)
    THEN [versions |-> vs, returned |-> "False"]
    ELSE IF registers
         THEN [versions |-> Append(vs, template), returned |-> "True"]
         ELSE [versions |-> vs, returned |-> "raised"]

\* what the form showed last: the template submitted, whether load_prompt
\* returned, what ensure_prompt_registered handed back, the message shown
NoSubmit == [template |-> <<>>, loaded |-> FALSE, returned |-> "",
             message |-> ""]

(***************************************************************************)
(* The speech pipeline of services.py: speech-to-text, then a sentiment    *)
(* call and a translation call, awaited one after the other or gathered.   *)
(* A text is the sequence of its characters, as for the prompts.           *)
(***************************************************************************)
\* what the transcription service may hear
Transcripts == {<<>>, <<" ">>, <<"h">>, <<" ", "h">>}

\* the JSON objects the model may answer a sentiment request with
SentimentAnswers ==
    {[sentiment |-> "Positive"], [sentiment |-> "Negative"],
     [confidence |-> "low"]}

\* the JSON objects it may answer a translation request with
TranslationAnswers == {[translated_text |-> <<"n">>], [text |-> <<"n">>]}

\* a local not yet assigned, a call that has not returned
Unset == [unset |-> TRUE]

\* speech_to_text, lines 125-129
SpeechToTextResult(text) == [text |-> text]

TaskNames == {"sentiment", "translation"}

\* analyze_sentiment, lines 199-203, on the answer of the model
SentimentResult(result) ==
    [sentiment |-> IF "sentiment" \in DOMAIN result
                   THEN result.sentiment
                   ELSE "Neutral"]

\* translate_to_hindi, lines 271-274
TranslationResult(result, text) ==
    [translated_text |-> IF "translated_text" \in DOMAIN result
                         THEN result.translated_text
                         ELSE <<>>,
     original_text |-> text]

\* process_audio_file, lines 357-362 (processing_time is left out)
AnalysisResults(transcription, sentiment, translation) ==
    [transcription |-> transcription, sentiment |-> sentiment,
     translation |-> translation]

\* the exceptions the pipeline raises
RaisedException(message) == [exception |-> message]

\* line 332: not transcribed_text or len(transcribed_text.strip()) == 0
NoSpeech(text) == text = <<>> \/ Len(strip(text)) = 0

\* asyncio.gather with return_exceptions=True never raises
GatherRaises_return_exceptions(failed) == FALSE

\* asyncio.gather, line 302: it raises as soon as one of its tasks failed
GatherRaises(failed) == failed # {}

\* a task of the event loop: "none", "pending" (scheduled, not yet run),
\* "issued" (awaiting the answer of the API), "done", "failed", "cancelled"
NoTask == [state |-> "none", value |-> Unset]

NoTasks == [n \in TaskNames |-> NoTask]

VARIABLES
    response_cache,  \* the global dict of the running process
    file,            \* CACHE_FILE on disk
    pc,              \* per thread: where its get_response call stands
    frame,           \* per thread: the locals of its get_response call
    ret,             \* per thread: the result of its last call
    clock,           \* time.time()
    run,             \* the number of the running process
    onlyCached,      \* history: this process made only caching get_response
                     \*   calls, after at most a load_cache at its start
    asked,           \* history: the pairs such a process issued a request for
    stored,          \* history: the response last stored per pair, since the
                     \*   last clear or load of this process
    lastDone,        \* history: the store or clear that returned last, with
                     \*   no call since
    acked,           \* history: keys whose store returned with the file written
    mustHave,        \* history: acked, as it was when the process ended
    phase,           \* history: "started" (a new process, no call yet),
                     \*   "loaded" (its first call was load_cache), "run"
    versions,        \* the registry: the versions of the prompt, latest last
    submitted,       \* the last submission of the registration form
    parallel_processing, \* the service: config['api']['parallel_processing']
    step,            \* where process_audio_file stands: "idle", "stt",
                     \*   "sentiment", "translation" (awaiting that call),
                     \*   "gather", "returned", "raised"
    stt_result,      \* its local: what speech_to_text returned
    task,            \* the two calls of the language model
    finished,        \* history: the calls in the order they completed
    outcome          \* what process_audio_file returned or raised

cacheVars == <<response_cache, file, pc, frame, ret, clock, run, onlyCached,
               asked, stored, lastDone, acked, mustHave, phase>>

registry == <<versions, submitted>>

pipeline == <<parallel_processing, step, stt_result, task, finished,
              outcome>>

vars == <<response_cache, file, pc, frame, ret, clock, run, onlyCached,
          asked, stored, lastDone, acked, mustHave, phase, versions,
          submitted, parallel_processing, step, stt_result, task,
          finished, outcome>>

Init ==
    /\ response_cache = EmptyCache
    /\ file = NoFile
    /\ pc = [t \in Threads |-> "idle"]
    /\ frame = [t \in Threads |-> NoFrame]
    /\ ret = [t \in Threads |-> NoRet]
    /\ clock = 0
    /\ run = 1
    /\ onlyCached = TRUE
    /\ asked = {}
    /\ stored = [q \in Pairs |-> None]
    /\ lastDone = NoDone
    /\ acked = {}
    /\ mustHave = {}
    /\ phase = "started"
    /\ versions = <<>>
    /\ submitted = NoSubmit
    /\ parallel_processing = TRUE
    /\ step = "idle"
    /\ stt_result = Unset
    /\ task = NoTasks
    /\ finished = <<>>
    /\ outcome = Unset

(***************************************************************************)
(* load_cache: the dict it leaves, and whether it raises.  LoadResult is   *)
(* the function of the source; the three before it are the same function   *)
(* with one of its lines left out.                                         *)
(***************************************************************************)
\* load_cache without its global statement: the unpickled dict is lost
LoadResult_local(cache, f) ==
    IF f.exists /\ ~f.readable
    THEN [cache |-> EmptyCache, raised |-> FALSE]
    ELSE [cache |-> cache, raised |-> FALSE]

\* load_cache without the os.path.exists test and without the try
LoadResult_nocheck(cache, f) ==
    IF f.exists /\ f.readable
    THEN [cache |-> f.data, raised |-> FALSE]
    ELSE [cache |-> cache, raised |-> TRUE]

\* load_cache whose except branch only prints
LoadResult_keep(cache, f) ==
    IF f.exists /\ f.readable
    THEN [cache |-> f.data, raised |-> FALSE]
    ELSE [cache |-> cache, raised |-> FALSE]

LoadResult(cache, f) ==
    IF f.exists
    THEN IF f.readable
         THEN [cache |-> f.data, raised |-> FALSE]
         ELSE [cache |-> EmptyCache, raised |-> FALSE]
    ELSE [cache |-> cache, raised |-> FALSE]

LoadCache(t) ==
    /\ UNCHANGED <<registry, pipeline>>
    /\ pc[t] = "idle"
    /\ LET r == LoadResult(response_cache, file)
       IN /\ response_cache' = r.cache
          /\ ret' = [ret EXCEPT ![t] =
                        Ret("load_cache",
                            IF r.raised THEN "raised" ELSE "returned",
                            "", 0, Size(response_cache))]
    /\ onlyCached' = (phase = "started")
    /\ asked' = {}
    /\ stored' = [q \in Pairs |-> None]
    /\ acked' = {}
    /\ IF phase = "started"
       THEN /\ phase' = "loaded"
            /\ UNCHANGED <<lastDone, mustHave>>
       ELSE /\ phase' = "run"
            /\ lastDone' = IF lastDone.op = "put"
                           THEN [lastDone EXCEPT !.op = "put, load"]
                           ELSE NoDone
            /\ mustHave' = {}
    /\ UNCHANGED <<file, pc, frame, clock, run>>

(***************************************************************************)
(* clear_cache.  os.remove is not guarded: when it fails the exception     *)
(* leaves clear_cache, after the dict was emptied.                         *)
(***************************************************************************)
\* lines 80-81: the file after clear_cache; removable: os.remove succeeds
\* clear_cache that empties the dict only
ClearResult_keepfile(f, removable) == [file |-> f, raised |-> FALSE]

ClearResult(f, removable) ==
    IF f.exists
    THEN IF removable
         THEN [file |-> NoFile, raised |-> FALSE]
         ELSE [file |-> f, raised |-> TRUE]
    ELSE [file |-> f, raised |-> FALSE]

ClearCache(t) ==
    /\ UNCHANGED <<registry, pipeline>>
    /\ pc[t] = "idle"
    /\ response_cache' = EmptyCache
    /\ \E removable \in BOOLEAN :
          LET r == ClearResult(file, removable)
          IN /\ file' = r.file
             /\ ret' = [ret EXCEPT ![t] =
                           Ret("clear_cache",
                               IF r.raised THEN "raised" ELSE "returned",
                               "", 0, Size(response_cache))]
             /\ lastDone' = Done("clear", <<"", "">>, "", Size(response_cache),
                                ~r.raised)
    /\ onlyCached' = FALSE
    /\ asked' = {}
    /\ stored' = [q \in Pairs |-> None]
    /\ acked' = {}
    /\ mustHave' = {}
    /\ phase' = "run"
    /\ UNCHANGED <<pc, frame, clock, run>>

(***************************************************************************)
(* get_cache_stats.                                                        *)
(***************************************************************************)
GetCacheStats(t) ==
    /\ UNCHANGED <<registry, pipeline>>
    /\ pc[t] = "idle"
    /\ \E size \in getsize(file) :
          ret' = [ret EXCEPT ![t] =
                     StatsRet(GetStats(response_cache, file, size))]
    /\ lastDone' = NoDone
    /\ mustHave' = {}
    /\ phase' = "run"
    /\ UNCHANGED <<response_cache, file, pc, frame, clock, run, onlyCached,
                   asked, stored, acked>>

(***************************************************************************)
(* get_response, in the steps another thread or a crash can fall between.  *)
(***************************************************************************)
\* lines 125-133: the dict after a hit; cached_data is only read
\* a hit that notes the time of the last use in the entry
AfterHit_touch(d, k, now) == [d EXCEPT ![k].timestamp = now]

AfterHit(d, k, now) == d

\* lines 119-122: whether the call is served from the dict
\* a lookup that does not test use_cache
Lookup_always(use_cache, d, k) == CacheHit(d, k)

Lookup(use_cache, d, k) == use_cache /\ CacheHit(d, k)

\* line 133: what a hit hands back; rt: the measured cache_retrieval_time
\* a hit that hands back the time of the remote call
HitResult_original(entry, rt) ==
    Ret("get_response", "hit", entry.response, entry.original_time, 0)

HitResult(entry, rt) == Ret("get_response", "hit", entry.response, rt, 0)

\* line 150: what a failed request hands back
\* a failed request whose exception is not caught
ErrorReturn_raise == Ret("get_response", "raised", "", 0, 0)

ErrorReturn == Ret("get_response", "error", ErrorText, 0, 0)

\* lines 119-133: the lookup; a hit returns at once
GetResponseCall(t, prompt, model, use_cache) ==
    /\ UNCHANGED <<registry, pipeline>>
    /\ pc[t] = "idle"
    /\ LET key == get_cache_key(prompt, model)
       IN IF Lookup(use_cache, response_cache, key)
          THEN /\ \E rt \in RetrievalTimes :
                    ret' = [ret EXCEPT ![t] =
                               HitResult(response_cache[key], rt)]
               /\ response_cache' = AfterHit(response_cache, key, clock)
               /\ lastDone' =
                      Done("hit", <<prompt, model>>,
                           response_cache[key].response,
                           IF /\ phase = "run"
                              /\ lastDone.op \in {"put", "hit"}
                              /\ lastDone.prompt = prompt
                              /\ lastDone.model = model
                           THEN 1 ELSE 0,
                           TRUE)
               /\ UNCHANGED <<pc, frame>>
          ELSE /\ use_cache => clock < MaxClock
               /\ pc' = [pc EXCEPT ![t] = "request"]
               /\ frame' = [frame EXCEPT ![t] =
                               [NoFrame EXCEPT !.prompt = prompt,
                                               !.model = model,
                                               !.use_cache = use_cache,
                                               !.cache_key =
                                                   IF use_cache THEN key ELSE ""]]
               /\ ret' = [ret EXCEPT ![t] = NoRet]
               /\ lastDone' = NoDone
               /\ UNCHANGED response_cache
    /\ onlyCached' = (onlyCached /\ use_cache)
    /\ asked' = IF onlyCached /\ use_cache THEN asked ELSE {}
    /\ mustHave' = {}
    /\ phase' = "run"
    /\ UNCHANGED <<file, clock, run, stored, acked>>

\* lines 143-157: the request, its failure, the parsing of the answer
RemoteCall(t) ==
    /\ UNCHANGED <<registry, pipeline>>
    /\ pc[t] = "request"
    /\ LET q == <<frame[t].prompt, frame[t].model>>
           Uncached(p) == IF CacheHit(response_cache, KeyOf(p)) THEN 1 ELSE 0
       IN /\ asked' = IF onlyCached THEN asked \cup {q} ELSE asked
          /\ \/ \* requests.RequestException
                /\ ret' = [ret EXCEPT ![t] = ErrorReturn]
                /\ pc' = [pc EXCEPT ![t] = "idle"]
                /\ frame' = [frame EXCEPT ![t] = NoFrame]
                /\ lastDone' = IF frame[t].use_cache
                               THEN Done("error", q, ErrorText, 0, FALSE)
                               ELSE Done("uncached", q, ErrorText,
                                         Uncached(q), FALSE)
             \/ \* line 156: the body is not JSON, resp.json() raises
                /\ ret' = [ret EXCEPT ![t] =
                              Ret("get_response", "raised", "", 0, 0)]
                /\ pc' = [pc EXCEPT ![t] = "idle"]
                /\ frame' = [frame EXCEPT ![t] = NoFrame]
                /\ UNCHANGED lastDone
             \/ \* an answer, with or without a "response" field
                \E text \in Texts \cup {NoResponse}, lat \in Latencies :
                   IF frame[t].use_cache
                   THEN /\ frame' = [frame EXCEPT ![t].response_text = text,
                                                  ![t].response_time = lat]
                        /\ pc' = [pc EXCEPT ![t] = "store"]
                        /\ UNCHANGED <<ret, lastDone>>
                   ELSE /\ ret' = [ret EXCEPT ![t] =
                                      Ret("get_response", "fresh", text, lat, 0)]
                        /\ pc' = [pc EXCEPT ![t] = "idle"]
                        /\ frame' = [frame EXCEPT ![t] = NoFrame]
                        /\ lastDone' = Done("uncached", q, text,
                                            Uncached(q), TRUE)
    /\ UNCHANGED <<response_cache, file, clock, run, onlyCached, stored,
                   acked, mustHave, phase>>

\* lines 160-168: the entry is built and assigned
\* an entry that keeps the prompt in place of the answer
NewEntry_prompt(f, now) ==
    [response |-> f.prompt, original_time |-> f.response_time,
     timestamp |-> now, model |-> f.model]

NewEntry(f, now) ==
    [response |-> f.response_text, original_time |-> f.response_time,
     timestamp |-> now, model |-> f.model]

Store(t) ==
    /\ UNCHANGED <<registry, pipeline>>
    /\ pc[t] = "store"
    /\ response_cache' = DictSet(response_cache,
                                 get_cache_key(frame[t].prompt, frame[t].model),
                                 NewEntry(frame[t], clock))
    /\ clock' = clock + 1
    /\ stored' = [stored EXCEPT ![<<frame[t].prompt, frame[t].model>>] =
                     frame[t].response_text]
    /\ pc' = [pc EXCEPT ![t] = "save_open"]
    /\ frame' = [frame EXCEPT ![t].file_keys = DOMAIN FileContent(file)]
    /\ UNCHANGED <<file, ret, run, onlyCached, asked, lastDone, acked,
                   mustHave, phase>>

\* line 172: what get_response hands back after save_cache; saved: the
\* file was written
\* a save_cache that returns its failure, and a get_response that passes it on
PutResult_flagged(f, saved) ==
    Ret("get_response", IF saved THEN "fresh" ELSE "not saved",
        f.response_text, f.response_time, 0)

\* a save_cache without its try: the exception leaves get_response
PutResult_notry(f, saved) ==
    IF saved
    THEN Ret("get_response", "fresh", f.response_text, f.response_time, 0)
    ELSE Ret("get_response", "raised", "", 0, 0)

PutResult(f, saved) ==
    Ret("get_response", "fresh", f.response_text, f.response_time, 0)

\* lines 170-172: get_response returns after save_cache
PutReturns(t, saved) ==
    /\ ret' = [ret EXCEPT ![t] = PutResult(frame[t], saved)]
    /\ pc' = [pc EXCEPT ![t] = "idle"]
    /\ frame' = [frame EXCEPT ![t] = NoFrame]
    /\ LET q == <<frame[t].prompt, frame[t].model>>
           twice == /\ lastDone.op = "put"
                    /\ lastDone.prompt = q[1]
                    /\ lastDone.model = q[2]
       IN lastDone' =
              [Done("put", q, frame[t].response_text,
                    IF twice THEN 1 ELSE 0, saved)
                  EXCEPT !.also = {<<p, stored[p]>> :
                                      p \in {x \in Pairs \ {q} :
                                                 /\ stored[x] # None
                                                 /\ KeyOf(x) \notin acked}}]
    /\ acked' = IF saved THEN acked \cup {frame[t].cache_key} ELSE acked

\* save_cache, line 54: open(CACHE_FILE, 'wb') truncates the file, or fails
SaveOpen(t) ==
    /\ UNCHANGED <<registry, pipeline>>
    /\ pc[t] = "save_open"
    /\ \/ /\ file' = Unreadable
          /\ pc' = [pc EXCEPT ![t] = "save_dump"]
          /\ UNCHANGED <<frame, ret, lastDone, acked>>
       \/ /\ file' = file
          /\ PutReturns(t, FALSE)
    /\ UNCHANGED <<response_cache, clock, run, onlyCached, asked, stored,
                   mustHave, phase>>

\* save_cache, line 55: pickle.dump writes the whole dict, or fails part way
SaveDump(t) ==
    /\ UNCHANGED <<registry, pipeline>>
    /\ pc[t] = "save_dump"
    /\ \/ /\ file' = Pickled(response_cache)
          /\ PutReturns(t, TRUE)
       \/ /\ file' = Unreadable
          /\ PutReturns(t, FALSE)
    /\ UNCHANGED <<response_cache, clock, run, onlyCached, asked, stored,
                   mustHave, phase>>

(***************************************************************************)
(* The process ends, by exit or by a crash at any point, and a new one     *)
(* starts: response_cache = {} (line 33); the file stays as it is.         *)
(***************************************************************************)
Restart ==
    /\ UNCHANGED <<registry, pipeline>>
    /\ run < MaxRuns
    /\ run' = run + 1
    /\ response_cache' = EmptyCache
    /\ pc' = [t \in Threads |-> "idle"]
    /\ frame' = [t \in Threads |-> NoFrame]
    /\ ret' = [t \in Threads |-> NoRet]
    /\ onlyCached' = TRUE
    /\ asked' = {}
    /\ stored' = [q \in Pairs |-> None]
    /\ acked' = {}
    /\ mustHave' = IF phase = "run" THEN acked ELSE mustHave
    /\ phase' = "started"
    /\ UNCHANGED <<file, clock, lastDone>>

(***************************************************************************)
(* The registration form of app.py, lines 126-143: it builds the template, *)
(* calls ensure_prompt_registered and shows what came of it.               *)
(***************************************************************************)
SubmitPrompt(system_prompt, user_prompt) ==
    /\ Len(versions) < MaxVersions
    /\ \E loads \in BOOLEAN, registers \in BOOLEAN :
          LET template == Template(system_prompt, user_prompt)
              loaded == loads /\ versions # <<>>
              r == ensure_prompt_registered(versions, template, loaded,
                                            registers)
          IN /\ versions' = r.versions
             /\ submitted' = [template |-> template,
                              loaded |-> loaded,
                              returned |-> r.returned,
                              message |->
                                  CASE r.returned = "True" -> "success"
                                    [] r.returned = "False" -> "warning"
                                    [] OTHER -> "error"]
    /\ UNCHANGED <<cacheVars, pipeline>>

NextPrompt ==
    \E sp \in SystemPrompts, up \in UserPrompts : SubmitPrompt(sp, up)

SpecPrompt == Init /\ [][NextPrompt]_vars

(***************************************************************************)
(* process_audio_file of services.py, lines 311-366, and the event loop    *)
(* that asyncio.run gives it (app.py, line 486).  speech_to_text blocks;   *)
(* the two calls of the language model suspend until the API answers.      *)
(***************************************************************************)
Answers(n) == IF n = "sentiment" THEN SentimentAnswers ELSE TranslationAnswers

\* what analyze_sentiment and translate_to_hindi return for an answer
TaskResult(n, answer, text) ==
    IF n = "sentiment"
    THEN SentimentResult(answer)
    ELSE TranslationResult(answer, text)

\* lines 204-206 and 276-278: what they raise when the call fails
FailureOf(n) ==
    RaisedException(IF n = "sentiment"
                    THEN "Failed to analyze sentiment"
                    ELSE "Failed to translate text")

\* the tasks that raised
Failed == {n \in TaskNames : task[n].state = "failed"}

\* the task that raised first
FirstFailed ==
    CHOOSE n \in Failed :
        \A m \in Failed :
            \E i, j \in 1..Len(finished) :
                finished[i] = n /\ finished[j] = m /\ i <= j

\* app.py line 486: asyncio.run(service.process_audio_file(audio_path))
ProcessAudioFile ==
    /\ step \in {"idle", "returned", "raised"}
    /\ \A n \in TaskNames : task[n].state # "issued"
    /\ step' = "stt"
    /\ stt_result' = Unset
    /\ task' = NoTasks
    /\ finished' = <<>>
    /\ outcome' = Unset
    /\ UNCHANGED <<cacheVars, registry, parallel_processing>>

\* lines 326-347: speech_to_text returns or raises, the check of the text,
\* and the pipeline up to its first await
SpeechToText ==
    /\ step = "stt"
    /\ \/ \* lines 131-133: the transcription failed
          /\ step' = "raised"
          /\ outcome' = RaisedException("Failed to transcribe audio")
          /\ UNCHANGED <<stt_result, task>>
       \/ \E text \in Transcripts :
             /\ stt_result' = SpeechToTextResult(text)
             /\ IF NoSpeech(text)
                THEN \* line 333
                     /\ step' = "raised"
                     /\ outcome' = RaisedException(
                                       "No speech detected in the audio file")
                     /\ UNCHANGED task
                ELSE IF parallel_processing
                THEN \* lines 298-302: gather schedules the two coroutines
                     /\ step' = "gather"
                     /\ task' = [n \in TaskNames |->
                                    [state |-> "pending", value |-> Unset]]
                     /\ UNCHANGED outcome
                ELSE \* line 346: analyze_sentiment runs up to its API call
                     /\ step' = "sentiment"
                     /\ task' = [task EXCEPT !.sentiment.state = "issued"]
                     /\ UNCHANGED outcome
    /\ UNCHANGED <<cacheVars, registry, parallel_processing, finished>>

\* the event loop runs a gathered coroutine up to its API call; it runs
\* them in the order gather was given them
StartTask(n) ==
    /\ task[n].state = "pending"
    /\ n = "translation" => task["sentiment"].state # "pending"
    /\ task' = [task EXCEPT ![n].state = "issued"]
    /\ UNCHANGED <<cacheVars, registry, parallel_processing, step,
                   stt_result, finished, outcome>>

\* the API answers call n, or the call fails; when process_audio_file
\* awaits the call itself (lines 346-347) it goes on to its next await, its
\* return (lines 357-362) or its raise (lines 364-366)
TaskCompletes(n) ==
    /\ task[n].state = "issued"
    /\ finished' = Append(finished, n)
    /\ \E v \in {TaskResult(n, a, stt_result.text) : a \in Answers(n)}
                  \cup {FailureOf(n)} :
          LET failed == v = FailureOf(n)
              settled == [state |-> IF failed THEN "failed" ELSE "done",
                          value |-> v]
          IN  IF step \in {"gather", "raised"}
              THEN /\ task' = [task EXCEPT ![n] = settled]
                   /\ UNCHANGED <<step, outcome>>
              ELSE IF failed
              THEN /\ task' = [task EXCEPT ![n] = settled]
                   /\ step' = "raised"
                   /\ outcome' = v
              ELSE IF n = "sentiment"
              THEN /\ task' = [task EXCEPT ![n] = settled,
                                           !.translation.state = "issued"]
                   /\ step' = "translation"
                   /\ UNCHANGED outcome
              ELSE /\ task' = [task EXCEPT ![n] = settled]
                   /\ step' = "returned"
                   /\ outcome' = AnalysisResults(stt_result.text,
                                                 task["sentiment"].value, v)
    /\ UNCHANGED <<cacheVars, registry, parallel_processing,
                   stt_result>>

\* lines 302-309 and 343: the gather is over, analyze_speech_parallel
\* returns the pair or lets the exception through, process_audio_file
\* returns or raises
GatherResumes ==
    /\ step = "gather"
    /\ \/ GatherRaises(Failed)
       \/ \A n \in TaskNames : task[n].state \in {"done", "failed"}
    /\ IF GatherRaises(Failed)
       THEN /\ step' = "raised"
            /\ outcome' = task[FirstFailed].value
       ELSE /\ step' = "returned"
            /\ outcome' = AnalysisResults(stt_result.text,
                                          task["sentiment"].value,
                                          task["translation"].value)
    /\ UNCHANGED <<cacheVars, registry, parallel_processing,
                   stt_result, task, finished>>

\* asyncio.run cancels the tasks its coroutine left behind
CloseLoop ==
    /\ step \in {"returned", "raised"}
    /\ \E n \in TaskNames : task[n].state = "issued"
    /\ task' = [n \in TaskNames |->
                   IF task[n].state = "issued"
                   THEN [task[n] EXCEPT !.state = "cancelled"]
                   ELSE task[n]]
    /\ UNCHANGED <<cacheVars, registry, parallel_processing, step,
                   stt_result, finished, outcome>>

\* a service of either configuration (lines 87-88), nothing called yet
InitSpeech ==
    /\ response_cache = EmptyCache
    /\ file = NoFile
    /\ pc = [t \in Threads |-> "idle"]
    /\ frame = [t \in Threads |-> NoFrame]
    /\ ret = [t \in Threads |-> NoRet]
    /\ clock = 0
    /\ run = 1
    /\ onlyCached = TRUE
    /\ asked = {}
    /\ stored = [q \in Pairs |-> None]
    /\ lastDone = NoDone
    /\ acked = {}
    /\ mustHave = {}
    /\ phase = "started"
    /\ versions = <<>>
    /\ submitted = NoSubmit
    /\ parallel_processing \in BOOLEAN
    /\ step = "idle"
    /\ stt_result = Unset
    /\ task = NoTasks
    /\ finished = <<>>
    /\ outcome = Unset

NextSpeech ==
    \/ ProcessAudioFile
    \/ SpeechToText
    \/ \E n \in TaskNames : StartTask(n)
    \/ \E n \in TaskNames : TaskCompletes(n)
    \/ GatherResumes
    \/ CloseLoop

SpecSpeech == InitSpeech /\ [][NextSpeech]_vars

(***************************************************************************)
(* The sequential script: one thread.                                      *)
(***************************************************************************)
Main == 1

Next ==
    \/ LoadCache(Main)
    \/ ClearCache(Main)
    \/ GetCacheStats(Main)
    \/ \E q \in Pairs, uc \in BOOLEAN : GetResponseCall(Main, q[1], q[2], uc)
    \/ RemoteCall(Main)
    \/ Store(Main)
    \/ SaveOpen(Main)
    \/ SaveDump(Main)
    \/ Restart

Spec == Init /\ [][Next]_vars

(***************************************************************************)
(* Runs that never call clear_cache.                                       *)
(***************************************************************************)
NextNoClear ==
    \/ LoadCache(Main)
    \/ GetCacheStats(Main)
    \/ \E q \in Pairs, uc \in BOOLEAN : GetResponseCall(Main, q[1], q[2], uc)
    \/ RemoteCall(Main)
    \/ Store(Main)
    \/ SaveOpen(Main)
    \/ SaveDump(Main)
    \/ Restart

SpecNoClear == Init /\ [][NextNoClear]_vars

(***************************************************************************)
(* One process of the script that finds the backing file earlier runs have *)
(* left, with none to four entries.                                        *)
(***************************************************************************)
InitStats ==
    /\ \E n \in 0..Len(SeedPairs) : file = Pickled(SeededCache(n))
    /\ response_cache = EmptyCache
    /\ pc = [t \in Threads |-> "idle"]
    /\ frame = [t \in Threads |-> NoFrame]
    /\ ret = [t \in Threads |-> NoRet]
    /\ clock = 0
    /\ run = 1
    /\ onlyCached = TRUE
    /\ asked = {}
    /\ stored = [q \in Pairs |-> None]
    /\ lastDone = NoDone
    /\ acked = {}
    /\ mustHave = {}
    /\ phase = "started"
    /\ versions = <<>>
    /\ submitted = NoSubmit
    /\ parallel_processing = TRUE
    /\ step = "idle"
    /\ stt_result = Unset
    /\ task = NoTasks
    /\ finished = <<>>
    /\ outcome = Unset

NextStats ==
    \/ LoadCache(Main)
    \/ ClearCache(Main)
    \/ GetCacheStats(Main)
    \/ \E q \in Pairs : GetResponseCall(Main, q[1], q[2], TRUE)
    \/ RemoteCall(Main)
    \/ Store(Main)
    \/ SaveOpen(Main)
    \/ SaveDump(Main)

SpecStats == InitStats /\ [][NextStats]_vars

(***************************************************************************)
(* Two threads of one process in caching get_response calls: nothing in    *)
(* the module locks, so their steps interleave.                            *)
(***************************************************************************)
NextRace ==
    \/ \E t \in Threads, q \in Pairs : GetResponseCall(t, q[1], q[2], TRUE)
    \/ \E t \in Threads : RemoteCall(t)
    \/ \E t \in Threads : Store(t)
    \/ \E t \in Threads : SaveOpen(t)
    \/ \E t \in Threads : SaveDump(t)

SpecRace == Init /\ [][NextRace]_vars

(***************************************************************************)
(* Helpers of the properties.                                              *)
(***************************************************************************)
\* the pair a thread's call is about
PairOf(t) == <<frame[t].prompt, frame[t].model>>

\* the dict holds response r under the key of pair q
Holds(d, q, r) == CacheHit(d, KeyOf(q)) /\ d[KeyOf(q)].response = r

\* the pair of the store that returned last
DonePair == <<lastDone.prompt, lastDone.model>>

\* a thread is between its dict assignment and its return
Saving(t) == pc[t] \in {"save_open", "save_dump"}

(***************************************************************************)
(* C1.  Durability across restarts, as stated: when a store of r for       *)
(* (p, m) has returned and a new process then starts and calls load_cache, *)
(* the dict of the new process holds r under the key of (p, m).            *)
(***************************************************************************)
DurabilityOfEveryStore ==
    (phase = "loaded" /\ lastDone.op = "put") =>
        Holds(response_cache, DonePair, lastDone.response)

(***************************************************************************)
(* C1, amended: the same, for a store whose save_cache wrote the file.     *)
(***************************************************************************)
DurabilityOfSavedStore ==
    (phase = "loaded" /\ lastDone.op = "put" /\ lastDone.ok) =>
        Holds(response_cache, DonePair, lastDone.response)

DurabilityWitness ==
    /\ phase = "loaded"
    /\ run > 1
    /\ lastDone.op = "put"
    /\ lastDone.ok
    /\ Holds(response_cache, DonePair, lastDone.response)

(***************************************************************************)
(* C2.  Crash bound: after a crash at any point and a restart followed by  *)
(* load_cache, the dict holds every key whose store had returned, with the *)
(* file written, before the crash.                                         *)
(***************************************************************************)
CrashBound ==
    phase = "loaded" => \A k \in mustHave : CacheHit(response_cache, k)

(***************************************************************************)
(* C3.  At most one remote call per pair, as stated: a process that makes  *)
(* only caching get_response calls issues no request for a pair it has     *)
(* issued a request for before.                                            *)
(***************************************************************************)
AtMostOneRequest ==
    [][\A t \in Threads :
          (RemoteCall(t) /\ onlyCached) => PairOf(t) \notin asked]_vars

(***************************************************************************)
(* C3, amended: such a process issues no request for a pair once a         *)
(* request for it was answered and the answer stored.                      *)
(***************************************************************************)
AtMostOneAnswer ==
    [][\A t \in Threads :
          (RemoteCall(t) /\ onlyCached) => stored[PairOf(t)] = None]_vars

AtMostOneAnswerWitness ==
    /\ onlyCached
    /\ ret[Main].kind = "hit"
    /\ \E q \in asked : stored[q] # None /\ stored[q] = ret[Main].text

(***************************************************************************)
(* C4.  Round trip in one process: a caching lookup of a pair for which a  *)
(* response was stored, with no clear or load since, is a hit and returns  *)
(* that response.                                                          *)
(***************************************************************************)
RoundTrip ==
    [][\A q \in Pairs :
          (GetResponseCall(Main, q[1], q[2], TRUE) /\ stored[q] # None) =>
              (ret'[Main].kind = "hit" /\ ret'[Main].text = stored[q])]_vars

RoundTripWitness ==
    /\ ret[Main].op = "get_response"
    /\ ret[Main].kind = "hit"
    /\ \E q \in Pairs : stored[q] # None /\ stored[q] = ret[Main].text

(***************************************************************************)
(* C5.  Key discrimination: two calls in flight for different pairs hold   *)
(* different keys, and were given different strings to digest.             *)
(***************************************************************************)
KeyDiscrimination ==
    \A t1, t2 \in Threads :
        (pc[t1] # "idle" /\ pc[t2] # "idle" /\ PairOf(t1) # PairOf(t2)) =>
            /\ frame[t1].cache_key # frame[t2].cache_key
            /\ combined(frame[t1].prompt, frame[t1].model)
                   # combined(frame[t2].prompt, frame[t2].model)

(***************************************************************************)
(* C7.  Fresh start: when a new process calls load_cache first and there   *)
(* is no backing file, load_cache returns without raising, the dict is     *)
(* empty and no pair is found in it.                                       *)
(***************************************************************************)
FreshStart ==
    (phase = "loaded" /\ ~file.exists) =>
        /\ ret[Main].kind = "returned"
        /\ response_cache = EmptyCache
        /\ \A q \in Pairs : ~CacheHit(response_cache, KeyOf(q))

FreshStartWitness ==
    /\ phase = "loaded"
    /\ ~file.exists
    /\ ret[Main].op = "load_cache"
    /\ ret[Main].kind = "returned"

(***************************************************************************)
(* C8.  Corruption tolerance: load_cache on a file that exists and does    *)
(* not unpickle returns without raising and leaves the dict empty,         *)
(* whatever the dict held.                                                 *)
(***************************************************************************)
CorruptionTolerance ==
    [][\A t \in Threads :
          (LoadCache(t) /\ file.exists /\ ~file.readable) =>
              (ret'[t].kind = "returned" /\ response_cache' = EmptyCache)]_vars

CorruptionToleranceWitness ==
    /\ ret[Main].op = "load_cache"
    /\ ret[Main].kind = "returned"
    /\ ret[Main].had > 0
    /\ file.exists
    /\ ~file.readable
    /\ response_cache = EmptyCache

(***************************************************************************)
(* C9.  Clear semantics, as stated: after clear_cache the dict is empty    *)
(* and the backing file does not exist, and a restart followed by          *)
(* load_cache yields an empty dict.                                        *)
(***************************************************************************)
ClearSemantics ==
    /\ ret[Main].op = "clear_cache" =>
           (response_cache = EmptyCache /\ ~file.exists)
    /\ (phase = "loaded" /\ lastDone.op = "clear") =>
           response_cache = EmptyCache

(***************************************************************************)
(* C9, amended: after clear_cache the dict is empty; when clear_cache      *)
(* returned without raising, the backing file does not exist and a restart *)
(* followed by load_cache yields an empty dict.                            *)
(***************************************************************************)
ClearSemanticsWhenRemoved ==
    /\ ret[Main].op = "clear_cache" =>
           /\ response_cache = EmptyCache
           /\ \A q \in Pairs : ~CacheHit(response_cache, KeyOf(q))
           /\ ret[Main].kind = "returned" => ~file.exists
    /\ (phase = "loaded" /\ lastDone.op = "clear" /\ lastDone.ok) =>
           (response_cache = EmptyCache /\ ~file.exists)

ClearSemanticsWitness ==
    /\ phase = "loaded"
    /\ lastDone.op = "clear"
    /\ lastDone.ok
    /\ lastDone.had > 0
    /\ response_cache = EmptyCache
    /\ ~file.exists

(***************************************************************************)
(* C10.  Overwrite on re-insertion: a store under a key the dict already   *)
(* holds leaves the set of keys as it was, puts the new response under     *)
(* that key and leaves every other entry alone.                            *)
(***************************************************************************)
OverwriteOnReinsertion ==
    [][\A t \in Threads :
          LET k == get_cache_key(frame[t].prompt, frame[t].model)
          IN (Store(t) /\ CacheHit(response_cache, k)) =>
                 /\ DOMAIN response_cache' = DOMAIN response_cache
                 /\ response_cache'[k].response = frame[t].response_text
                 /\ \A x \in DOMAIN response_cache \ {k} :
                        response_cache'[x] = response_cache[x]]_vars

OverwriteWitness ==
    /\ Saving(1)
    /\ Saving(2)
    /\ PairOf(1) = PairOf(2)
    /\ frame[1].response_text # frame[2].response_text
    /\ Size(response_cache) = 1
    /\ \E t \in Threads :
          Holds(response_cache, PairOf(t), frame[t].response_text)

WriteFailureSurfaced ==
    (phase = "run" /\ lastDone.op = "put") =>
        (ret[Main].kind = "fresh" <=> lastDone.ok)

(***************************************************************************)
(* C12, amended: a store hands back the text and the time of the answer,   *)
(* whether save_cache wrote the file or not.                               *)
(***************************************************************************)
WriteFailureOnlyPrinted ==
    [][\A t \in Threads :
          ((SaveOpen(t) \/ SaveDump(t)) /\ pc'[t] = "idle") =>
              ret'[t] = Ret("get_response", "fresh", frame[t].response_text,
                            frame[t].response_time, 0)]_vars

WriteFailureWitness ==
    /\ phase = "run"
    /\ lastDone.op = "put"
    /\ ~lastDone.ok
    /\ file = Unreadable
    /\ ret[Main].kind = "fresh"
    /\ ret[Main].text = lastDone.response

(***************************************************************************)
(* C13.  Failed save keeps memory intact: a save_cache that fails does not *)
(* raise and leaves the dict as it was, with the entry stored just before  *)
(* it; a lookup of that pair as the next call is a hit with its response.  *)
(***************************************************************************)
FailedSaveKeepsMemory ==
    [][/\ \A t \in Threads :
             ((SaveOpen(t) \/ SaveDump(t)) /\ pc'[t] = "idle"
                  /\ ~lastDone'.ok) =>
                 /\ ret'[t].kind # "raised"
                 /\ response_cache' = response_cache
                 /\ Holds(response_cache', PairOf(t), frame[t].response_text)
       /\ (phase = "run" /\ lastDone.op = "put" /\ ~lastDone.ok
               /\ GetResponseCall(Main, lastDone.prompt, lastDone.model,
                                   TRUE)) =>
              /\ ret'[Main].kind = "hit"
              /\ ret'[Main].text = lastDone.response]_vars

FailedSaveWitness ==
    /\ ret[Main].op = "get_response"
    /\ ret[Main].kind = "hit"
    /\ ~file.exists
    /\ \E q \in Pairs : Holds(response_cache, q, ret[Main].text)

(***************************************************************************)
(* C14.  Delete failure in clear is not fatal: clear_cache returns without *)
(* raising, also when the backing file cannot be deleted, and the dict is  *)
(* empty afterwards.                                                       *)
(***************************************************************************)
ClearDeleteFailureNotFatal ==
    ret[Main].op = "clear_cache" =>
        (ret[Main].kind = "returned" /\ response_cache = EmptyCache)

(***************************************************************************)
(* C15.  Load replaces memory with disk: after load_cache the dict equals  *)
(* the content of the backing file, and is empty when the file does not    *)
(* exist or does not unpickle, whatever the dict held before.              *)
(***************************************************************************)
LoadReplacesMemory ==
    ret[Main].op = "load_cache" =>
        response_cache = IF file.exists /\ file.readable
                         THEN file.data
                         ELSE EmptyCache

(***************************************************************************)
(* C16.  Lookup has no side effects: a caching get_response call that      *)
(* finds its key returns the stored response and leaves the dict and the   *)
(* backing file as they were; it issues no request and writes no file.     *)
(***************************************************************************)
LookupHasNoSideEffects ==
    [][\A t \in Threads, q \in Pairs :
          (KeyOf(q) \in DOMAIN response_cache
               /\ GetResponseCall(t, q[1], q[2], TRUE)) =>
              /\ ret'[t].kind = "hit"
              /\ ret'[t].text = response_cache[KeyOf(q)].response
              /\ response_cache' = response_cache
              /\ file' = file
              /\ pc'[t] = "idle"
              /\ asked' = asked
              /\ clock' = clock]_vars

LookupHitWitness ==
    /\ ret[Main].op = "get_response"
    /\ ret[Main].kind = "hit"
    /\ clock > 0
    /\ file = Pickled(response_cache)
    /\ \E k \in DOMAIN response_cache :
          /\ response_cache[k].response = ret[Main].text
          /\ response_cache[k].timestamp < clock

(***************************************************************************)
(* C17.  Stats are read-only and consistent: get_cache_stats leaves the    *)
(* dict and the backing file as they were; cache_size is the number of     *)
(* entries, cache_file_exists tells whether the file exists, the byte size *)
(* is 0 when there is no file, and cached_keys has at most three keys,     *)
(* each a key of the dict.                                                 *)
(***************************************************************************)
StatsReadOnlyAndConsistent ==
    [][\A t \in Threads :
          GetCacheStats(t) =>
              LET st == ret'[t].stats
              IN /\ response_cache' = response_cache
                 /\ file' = file
                 /\ st.cache_size = Size(response_cache)
                 /\ st.cache_file_exists = file.exists
                 /\ ~file.exists => st.cache_file_size_bytes = 0
                 /\ Len(st.cached_keys) <= 3
                 /\ \A i \in 1..Len(st.cached_keys) :
                        st.cached_keys[i] \in DOMAIN response_cache]_vars

StatsWitness ==
    /\ ret[Main].op = "get_cache_stats"
    /\ ret[Main].stats.cache_size > 3
    /\ Len(ret[Main].stats.cached_keys) = 3
    /\ ret[Main].stats.cached_keys[1] = KeyOf(SeedPairs[1])
    /\ ret[Main].stats.cache_file_exists
    /\ ret[Main].stats.cache_file_size_bytes > 0

PromptRegistrationIdempotent ==
    [][\A sp \in SystemPrompts, up \in UserPrompts :
          SubmitPrompt(sp, up) =>
              LET template == Template(sp, up)
                  same == /\ versions # <<>>
                          /\ normalize_template(versions[Len(versions)])
                                 = normalize_template(template)
              IN /\ same => versions' = versions
                 /\ (submitted'.returned = "True") <=> (versions' # versions)
                 /\ (submitted.template = template
                        /\ submitted.returned \in {"True", "False"}) =>
                       (versions' = versions
                            /\ submitted'.returned = "False")]_vars

(***************************************************************************)
(* C20.  Order of steps on a miss: the request of a caching get_response   *)
(* call is issued after its lookup and only when the key is not in the     *)
(* dict; such a call returns an answer only out of save_cache, with the    *)
(* entry in the dict, and the text it returns is the response of that      *)
(* entry.                                                                  *)
(***************************************************************************)
OrderOfStepsOnMiss ==
    [][\A t \in Threads :
          /\ (RemoteCall(t) /\ frame[t].use_cache) =>
                 /\ frame[t].cache_key
                        = get_cache_key(frame[t].prompt, frame[t].model)
                 /\ ~CacheHit(response_cache, frame[t].cache_key)
          /\ (pc[t] # "idle" /\ pc'[t] = "idle" /\ frame[t].use_cache
                  /\ ret'[t].kind = "fresh") =>
                 /\ Saving(t)
                 /\ Holds(response_cache', PairOf(t), ret'[t].text)
                 /\ response_cache' = response_cache]_vars

OrderOfStepsWitness ==
    /\ phase = "run"
    /\ lastDone.op = "put"
    /\ lastDone.ok
    /\ ret[Main].kind = "fresh"
    /\ file = Pickled(response_cache)
    /\ Holds(response_cache, DonePair, ret[Main].text)

(***************************************************************************)
(* C21.  Memory and disk agree after each successful flush, as stated:     *)
(* right after a store whose save_cache wrote the file, right after a      *)
(* load_cache of a file that unpickles, and right after clear_cache, the   *)
(* content of the backing file (empty when there is none) is the dict.     *)
(***************************************************************************)
MemoryAndDiskAgree ==
    /\ (phase = "run" /\ lastDone.op = "put" /\ lastDone.ok
            /\ ret[Main].kind = "fresh") =>
           FileContent(file) = response_cache
    /\ (ret[Main].op = "load_cache" /\ file.exists /\ file.readable) =>
           FileContent(file) = response_cache
    /\ ret[Main].op = "clear_cache" =>
           FileContent(file) = response_cache

(***************************************************************************)
(* C21, amended: the same, after a clear_cache only when it returned,      *)
(* having deleted the file or found none.                                  *)
(***************************************************************************)
MemoryAndDiskAgreeWhenRemoved ==
    /\ (phase = "run" /\ lastDone.op = "put" /\ lastDone.ok
            /\ ret[Main].kind = "fresh") =>
           FileContent(file) = response_cache
    /\ (ret[Main].op = "load_cache" /\ file.exists /\ file.readable) =>
           FileContent(file) = response_cache
    /\ (ret[Main].op = "clear_cache" /\ ret[Main].kind = "returned") =>
           FileContent(file) = response_cache

MemoryAndDiskWitness ==
    /\ ret[Main].op = "load_cache"
    /\ ret[Main].had = 0
    /\ file.exists
    /\ file.readable
    /\ Size(response_cache) > 1
    /\ FileContent(file) = response_cache

(***************************************************************************)
(* C22.  Entries are only added: a step of a get_response call, cached or  *)
(* not, removes no key from the dict and leaves every entry the dict       *)
(* holds as it is: its response, original time, timestamp and model.       *)
(***************************************************************************)
EntriesOnlyAdded ==
    [][((\E q \in Pairs, uc \in BOOLEAN :
             GetResponseCall(Main, q[1], q[2], uc))
           \/ RemoteCall(Main) \/ Store(Main) \/ SaveOpen(Main)
           \/ SaveDump(Main)) =>
          \A k \in DOMAIN response_cache :
              /\ k \in DOMAIN response_cache'
              /\ response_cache'[k] = response_cache[k]]_vars

EntriesOnlyAddedWitness ==
    /\ lastDone.op = "put"
    /\ phase = "run"
    /\ \E q1, q2 \in Pairs :
          /\ KeyOf(q1) # KeyOf(q2)
          /\ stored[q1] # None
          /\ stored[q2] # None
          /\ Holds(response_cache, q1, stored[q1])
          /\ Holds(response_cache, q2, stored[q2])
          /\ response_cache[KeyOf(q1)].timestamp
                 < response_cache[KeyOf(q2)].timestamp

(***************************************************************************)
(* C23.  A failed save is repaired by the next successful one: when a      *)
(* store has returned with the file written, the file holds its entry and  *)
(* the entries stored before it by the same process whose own save_cache   *)
(* had failed; when the process ends then and a new one calls load_cache,  *)
(* the dict of the new process holds them all.                             *)
(***************************************************************************)
FailedSaveRepaired ==
    /\ (phase = "run" /\ lastDone.op = "put" /\ lastDone.ok) =>
           /\ Holds(FileContent(file), DonePair, lastDone.response)
           /\ \A e \in lastDone.also : Holds(FileContent(file), e[1], e[2])
    /\ (phase = "loaded" /\ lastDone.op = "put" /\ lastDone.ok) =>
           /\ Holds(response_cache, DonePair, lastDone.response)
           /\ \A e \in lastDone.also : Holds(response_cache, e[1], e[2])

FailedSaveRepairedWitness ==
    /\ phase = "loaded"
    /\ run > 1
    /\ lastDone.op = "put"
    /\ lastDone.ok
    /\ lastDone.also # {}
    /\ Size(response_cache) > 1
    /\ \A e \in lastDone.also : Holds(response_cache, e[1], e[2])

(***************************************************************************)
(* C24.  Race on one key is only lost work: a get_response call issues at  *)
(* most one request; and when a store returns after a store or a hit of    *)
(* the same pair that returned while it was under way, the dict holds one  *)
(* entry under the key of the pair, with the answer one of the two calls   *)
(* got.                                                                    *)
(***************************************************************************)
RaceOnOneKey ==
    [][\A t \in Threads :
          /\ RemoteCall(t) => pc'[t] # "request"
          /\ ((SaveOpen(t) \/ SaveDump(t)) /\ pc'[t] = "idle"
                  /\ lastDone.op \in {"put", "hit"}
                  /\ DonePair = PairOf(t)) =>
                 /\ CacheHit(response_cache', frame[t].cache_key)
                 /\ response_cache'[frame[t].cache_key].response
                        \in {frame[t].response_text, lastDone.response}
                 /\ ret'[t].text = frame[t].response_text]_vars

RaceOnOneKeyWitness ==
    /\ lastDone.op = "put"
    /\ lastDone.had = 1
    /\ pc[1] = "idle"
    /\ pc[2] = "idle"
    /\ ret[1].kind = "fresh"
    /\ ret[2].kind = "fresh"
    /\ ret[1].text # ret[2].text
    /\ Size(response_cache) = 1
    /\ \E t \in Threads :
          /\ ret[t].text # lastDone.response
          /\ Holds(response_cache, DonePair, ret[t].text)

(***************************************************************************)
(* C25.  Hit reports retrieval time, not original latency: a hit hands     *)
(* back the stored response with the time measured for the retrieval, and  *)
(* leaves the original_time of the entry as it is; a store puts the time   *)
(* measured for its remote call in original_time.                          *)
(***************************************************************************)
HitReportsRetrievalTime ==
    [][\A t \in Threads :
          /\ \A q \in Pairs :
                (KeyOf(q) \in DOMAIN response_cache
                     /\ GetResponseCall(t, q[1], q[2], TRUE)) =>
                    /\ ret'[t].text = response_cache[KeyOf(q)].response
                    /\ ret'[t].time \in RetrievalTimes
                    /\ response_cache'[KeyOf(q)].original_time
                           = response_cache[KeyOf(q)].original_time
                    /\ response_cache[KeyOf(q)].original_time \in Latencies
          /\ Store(t) =>
                response_cache'[KeyOf(PairOf(t))].original_time
                    = frame[t].response_time]_vars

HitReportsRetrievalTimeWitness ==
    /\ lastDone.op = "hit"
    /\ lastDone.had = 1
    /\ ret[Main].kind = "hit"
    /\ ret[Main].time \in RetrievalTimes
    /\ \E k \in DOMAIN response_cache :
          /\ response_cache[k].response = ret[Main].text
          /\ response_cache[k].original_time \in Latencies
          /\ response_cache[k].original_time # ret[Main].time

(***************************************************************************)
(* C26.  A failed remote call stores nothing: when the request fails,      *)
(* get_response returns the error text with time 0 and leaves the dict     *)
(* and the backing file as they were; the same caching call as the next    *)
(* call misses and issues the request again.                               *)
(***************************************************************************)
FailedRequestStoresNothing ==
    [][/\ \A t \in Threads :
             (RemoteCall(t) /\ lastDone'.op \in {"error", "uncached"}
                  /\ ~lastDone'.ok) =>
                 /\ ret'[t] = Ret("get_response", "error", ErrorText, 0, 0)
                 /\ pc'[t] = "idle"
                 /\ response_cache' = response_cache
                 /\ file' = file
       /\ \A q \in Pairs :
             (phase = "run" /\ lastDone.op = "error" /\ DonePair = q
                  /\ GetResponseCall(Main, q[1], q[2], TRUE)) =>
                 (pc'[Main] = "request" /\ ret'[Main].kind = "none")]_vars

FailedRequestWitness ==
    /\ lastDone.op = "error"
    /\ ret[Main] = Ret("get_response", "error", ErrorText, 0, 0)
    /\ DonePair \in asked
    /\ ~CacheHit(response_cache, KeyOf(DonePair))
    /\ Size(response_cache) > 0
    /\ file = Pickled(response_cache)

(***************************************************************************)
(* C27.  A store never drops entries persisted earlier: in runs without    *)
(* clear_cache, whether or not a run calls load_cache first, when the      *)
(* save_cache of a store has written the file, the file holds every key    *)
(* it held when the store began.                                           *)
(***************************************************************************)
StoreNeverDropsPersisted ==
    [][\A t \in Threads :
          (SaveDump(t) /\ file'.readable) =>
              frame[t].file_keys \subseteq DOMAIN FileContent(file')]_vars

(***************************************************************************)
(* C28.  Only model output is cached: every entry of the dict holds as     *)
(* response a text the remote model answered with; the error text and the  *)
(* placeholder for a missing response text are never stored.               *)
(***************************************************************************)
OnlyModelOutputCached ==
    \A k \in DOMAIN response_cache :
        /\ response_cache[k].response \in Texts
        /\ response_cache[k].response \notin {ErrorText, NoResponse}

(***************************************************************************)
(* C29.  Caching disabled leaves the cache alone: a get_response call with *)
(* use_cache false goes on to the request, also when the dict holds the    *)
(* key of its pair; the request, answered or failed, ends the call and     *)
(* neither step changes the dict or the backing file.                      *)
(***************************************************************************)
CachingDisabledLeavesCache ==
    [][\A t \in Threads :
          /\ \A q \in Pairs :
                GetResponseCall(t, q[1], q[2], FALSE) =>
                    /\ pc'[t] = "request"
                    /\ response_cache' = response_cache
                    /\ file' = file
          /\ (RemoteCall(t) /\ ~frame[t].use_cache) =>
                /\ pc'[t] = "idle"
                /\ ret'[t].kind \in {"fresh", "error", "raised"}
                /\ response_cache' = response_cache
                /\ file' = file]_vars

CachingDisabledWitness ==
    /\ lastDone.op = "uncached"
    /\ lastDone.ok
    /\ lastDone.had = 1
    /\ ret[Main].kind = "fresh"
    /\ ret[Main].text = lastDone.response
    /\ CacheHit(response_cache, KeyOf(DonePair))
    /\ response_cache[KeyOf(DonePair)].response # ret[Main].text
    /\ file = Pickled(response_cache)

(***************************************************************************)
(* C30.  The speech pipeline.  The two calls of the language model start   *)
(* only once speech_to_text has returned; an empty or all-whitespace       *)
(* transcription makes process_audio_file raise with neither call issued;  *)
(* when it returns, in either mode, it returns the transcription and what  *)
(* the two calls returned; and once a call has failed it never returns a   *)
(* result: the sequential mode has raised, the parallel mode is about to   *)
(* or has.                                                                 *)
(***************************************************************************)
PipelineOrdering ==
    /\ \A n \in TaskNames :
          task[n].state # "none" =>
              /\ step # "stt"
              /\ stt_result # Unset
    /\ (/\ stt_result # Unset
        /\ \A i \in 1..Len(stt_result.text) :
               stt_result.text[i] \in Whitespace) =>
          /\ step = "raised"
          /\ outcome = RaisedException("No speech detected in the audio file")
          /\ \A n \in TaskNames : task[n].state = "none"
    /\ step = "returned" =>
          /\ \A n \in TaskNames : task[n].state = "done"
          /\ outcome = AnalysisResults(stt_result.text,
                                       task["sentiment"].value,
                                       task["translation"].value)
    /\ Failed # {} =>
          /\ step = IF parallel_processing /\ outcome = Unset
                    THEN "gather"
                    ELSE "raised"
          /\ step = "raised" => outcome = task[FirstFailed].value

\* the gathered calls completed out of order, and the pipeline returned
PipelineOrderingWitness ==
    /\ parallel_processing
    /\ step = "returned"
    /\ finished = <<"translation", "sentiment">>
    /\ stt_result.text = <<" ", "h">>
    /\ outcome.sentiment = SentimentResult([confidence |-> "low"])

====
